---- MODULE Spec2Model ----
(***************************************************************************)
(* A model of rotor's actor_base_t (src/src/rotor/actor_base.cpp): the     *)
(* plugin activation / deactivation bookkeeping, the init and shutdown     *)
(* pipelines, the polling of the subscription slots and do_shutdown().     *)
(*                                                                         *)
(* Every method of actor_base_t is an operator from an actor record (the   *)
(* object's fields, the plugins' back references and the messages sent so  *)
(* far) to the actor record after the call; the actions apply a whole      *)
(* handler to the variables.  The plugins and the supervisor are not part  *)
(* of actor_base.cpp: what a plugin answers is an input of the action that *)
(* asks it.  Spec is the life of an actor whose plugins all activate,      *)
(* SpecActivation the activation with its failures and the destructor,     *)
(* SpecPoll the subscription and unsubscription confirmations.             *)
(***************************************************************************)
EXTENDS Integers, Sequences, FiniteSets, TLC

\* ------------------------------------------------------------------ bounds
NumPlugins == 3          \* number of plugins in cfg.plugins
MaxTriggers == 1         \* do_shutdown() calls explored per run
MaxUnsubscribes == 2     \* unsubscribe() calls explored per run
MaxSubscriptions == 2    \* subscribe() calls explored per run
MaxMessages == 2         \* messages sent to the routed addresses per run
MaxRequests == 2         \* requests made per run
MaxSlotCalls == 2        \* install_plugin() / uninstall_plugin() calls made
                         \* per run after the activation
MaxReplies == 2          \* responses the asked actors send

\* --------------------------------------------------------------- constants
Plugins == 1 .. NumPlugins

\* state_t
STATE_NEW == "NEW"          \* state_t::NEW (NEW is a reserved word)
INITIALIZING == "INITIALIZING"
INITIALIZED == "INITIALIZED"
OPERATIONAL == "OPERATIONAL"
SHUTTING_DOWN == "SHUTTING_DOWN"
SHUTTED_DOWN == "SHUTTED_DOWN"

\* slot_t
INIT == "INIT"
SHUTDOWN == "SHUTDOWN"
SUBSCRIPTION == "SUBSCRIPTION"
UNSUBSCRIPTION == "UNSUBSCRIPTION"
Slots == {INIT, SHUTDOWN, SUBSCRIPTION, UNSUBSCRIPTION}

\* processing_result_t
IGNORED == "IGNORED"
CONSUMED == "CONSUMED"
FINISHED == "FINISHED"
ProcessingResults == {IGNORED, CONSUMED, FINISHED}

\* an empty intrusive pointer, and the two request messages an actor stores
Null == "null"
InitRequest == "init_request"
ShutdownRequest == "shutdown_request"

\* the actor's own address and the address of its supervisor
address == "actor_address"
supervisor_address == "supervisor_address"

\* the object unsubscribe() is called on, and a supervisor that is not it
this == "this"
foreign_supervisor == "foreign_supervisor"

\* address_t: an address and the supervisor that owns it
Addresses == { [name |-> "local", supervisor |-> this],
               [name |-> "foreign", supervisor |-> foreign_supervisor] }

\* the supervisors of a program with two event loops, the addresses they own
\* and the handlers of the actors that live on them
Supervisors == {"S1", "S2"}
RoutedAddresses == { [name |-> "a1", supervisor |-> "S1"],
                     [name |-> "a2", supervisor |-> "S2"] }
RoutedHandlers == { [name |-> "h1", supervisor |-> "S1"],
                    [name |-> "h2", supervisor |-> "S2"],
                    [name |-> "h3", supervisor |-> "S1"] }

\* handler_base_t: a handler and the address of the actor that owns it
Handlers == { [name |-> "own", actor_address |-> address],
              [name |-> "other", actor_address |-> "other_actor_address"] }

VARIABLES
    state,                   \* actor_base_t::state
    activating_plugins,      \* identities of the plugins not yet activated
    deactivating_plugins,    \* identities of the plugins being deactivated
    init_plugins,            \* slot INIT
    shutdown_plugins,        \* slot SHUTDOWN
    subscription_plugins,    \* slot SUBSCRIPTION
    unsubscription_plugins,  \* slot UNSUBSCRIPTION
    init_request,            \* the stored init request, or Null
    shutdown_request,        \* the stored shutdown request, or Null
    plugin_actor,            \* plugin_actor[p]: plugin p's back reference is set
    outbox,                  \* the messages the actor has sent, in order
    pending_activation,      \* plugins that will commit their activation later
    pending_deactivation,    \* plugins that will commit their deactivation later
    phase,                   \* which driving messages have been delivered
    build,                   \* "any", or "ndebug" once a false assert() went by
    aborted,                 \* the site of the assert() that ended the program
    completed,               \* history: the plugins that finished init / shutdown,
                             \* in order; deactivate() calls; a reported failure
    queue,                   \* the unsubscription messages on their way
    unsubscribes,            \* history: the unsubscribe() calls, in order
    delivered,               \* history: the confirmations delivered, in order
    invoked,                 \* history: the callbacks invoked, in order
    slot_calls,              \* history: the install / uninstall calls made after
                             \* the activation, with the slot before and after
    calls,                   \* what the last handler did, in order
    last,                    \* the last handler and the actor before it ran
    queues,                  \* queues[S]: the delivery queue of supervisor S
    registry,                \* registry[a]: the handlers subscribed to address a
    invocations,             \* history: the handler invocations, in order
    posted,                  \* history: the messages sent, in order
    inflight,                \* the in-flight request map: the ids with an entry
    timers,                  \* timers[id]: the timer of request id
    entered,                 \* history: the responses and timer observations
                             \* in the order they entered the supervisor's queue
    processed,               \* how many of them the supervisor has taken
    outcomes                 \* history: what was delivered to the requester

vars == << state, activating_plugins, deactivating_plugins, init_plugins,
           shutdown_plugins, subscription_plugins, unsubscription_plugins,
           init_request, shutdown_request, plugin_actor, outbox,
           pending_activation, pending_deactivation, phase, build, aborted,
           completed, queue, unsubscribes, delivered, invoked, slot_calls,
           calls, last,
           queues, registry, invocations, posted,
           inflight, timers, entered, processed, outcomes >>

\* the request/response correlator
correlation == << inflight, timers, entered, processed, outcomes >>

\* the supervisors' side of the routing
routing == << queues, registry, invocations, posted >>

\* the fields of the one actor
actor == << state, activating_plugins, deactivating_plugins, init_plugins,
            shutdown_plugins, subscription_plugins, unsubscription_plugins,
            init_request, shutdown_request, plugin_actor, outbox,
            pending_activation, pending_deactivation, phase, build, aborted,
            completed, queue, unsubscribes, delivered, invoked, slot_calls >>

\* cfg.plugins, in the configured order
plugins == [i \in 1 .. NumPlugins |-> i]

\* plugin_t::identity(): one tag per plugin of the configuration
identity(p) == << "identity", p >>

\* the actor as one value
Self ==
    [ state |-> state,
      activating_plugins |-> activating_plugins,
      deactivating_plugins |-> deactivating_plugins,
      init_plugins |-> init_plugins,
      shutdown_plugins |-> shutdown_plugins,
      subscription_plugins |-> subscription_plugins,
      unsubscription_plugins |-> unsubscription_plugins,
      init_request |-> init_request,
      shutdown_request |-> shutdown_request,
      plugin_actor |-> plugin_actor,
      outbox |-> outbox,
      pending_activation |-> pending_activation,
      pending_deactivation |-> pending_deactivation,
      phase |-> phase,
      build |-> build,
      aborted |-> aborted,
      completed |-> completed,
      queue |-> queue,
      unsubscribes |-> unsubscribes,
      delivered |-> delivered,
      invoked |-> invoked,
      slot_calls |-> slot_calls,
      calls |-> << >> ]

\* the handler `op` has turned the actor into `a`
Store(op, a) ==
    /\ state' = a.state
    /\ activating_plugins' = a.activating_plugins
    /\ deactivating_plugins' = a.deactivating_plugins
    /\ init_plugins' = a.init_plugins
    /\ shutdown_plugins' = a.shutdown_plugins
    /\ subscription_plugins' = a.subscription_plugins
    /\ unsubscription_plugins' = a.unsubscription_plugins
    /\ init_request' = a.init_request
    /\ shutdown_request' = a.shutdown_request
    /\ plugin_actor' = a.plugin_actor
    /\ outbox' = a.outbox
    /\ pending_activation' = a.pending_activation
    /\ pending_deactivation' = a.pending_deactivation
    /\ phase' = a.phase
    /\ build' = a.build
    /\ aborted' = a.aborted
    /\ completed' = a.completed
    /\ queue' = a.queue
    /\ unsubscribes' = a.unsubscribes
    /\ delivered' = a.delivered
    /\ invoked' = a.invoked
    /\ slot_calls' = a.slot_calls
    /\ calls' = a.calls
    /\ last' = [op |-> op, pre |-> Self]
    /\ UNCHANGED << routing, correlation >>

\* one entry of `calls`
Ev(a, ev, p, r) == [a EXCEPT !.calls = Append(@, [ev |-> ev, p |-> p, r |-> r])]

\* the program runs: no assert() has ended it
Running == aborted = Null

\* a false assert(): the debug build ends the program at `site`, the build
\* with NDEBUG goes on with `a`
Asserted(a, cond, site, ndebug) ==
    IF cond THEN a
    ELSE IF ndebug THEN [a EXCEPT !.build = "ndebug"]
    ELSE [a EXCEPT !.aborted = site]

\* the builds the run can still be: all of them until a false assert() went by
Builds == IF build = "ndebug" THEN {TRUE} ELSE BOOLEAN

\* --------------------------------------------------- sending (actor_base.h)
send(a, type, dest, payload) ==
    [a EXCEPT !.outbox = Append(@, [type |-> type, dest |-> dest, payload |-> payload])]

\* reply_to(request): the response of the request's kind, to the requester
reply_to(a, request) ==
    Ev(send(a, "response", supervisor_address, request), "reply_to", 0, request)

\* ------------------------------------------------------------ constructor
Init ==
    /\ state = STATE_NEW
    /\ activating_plugins = { identity(plugins[i]) : i \in 1 .. Len(plugins) }
    /\ deactivating_plugins = {}
    /\ init_plugins = << >>
    /\ shutdown_plugins = << >>
    /\ subscription_plugins = << >>
    /\ unsubscription_plugins = << >>
    /\ init_request = Null
    /\ shutdown_request = Null
    /\ plugin_actor = [p \in Plugins |-> FALSE]
    /\ outbox = << >>
    /\ pending_activation = {}
    /\ pending_deactivation = {}
    /\ phase = [created |-> TRUE, activated |-> FALSE, init |-> FALSE,
                start |-> FALSE, shutdown |-> FALSE, destroyed |-> FALSE,
                triggers |-> 0]
    /\ build = "any"
    /\ aborted = Null
    /\ completed = [init |-> << >>, shutdown |-> << >>,
                    deactivate |-> [p \in Plugins |-> 0], failure |-> FALSE,
                    activation |-> {}]
    /\ queue = << >>
    /\ unsubscribes = << >>
    /\ delivered = << >>
    /\ invoked = << >>
    /\ slot_calls = << >>
    /\ calls = << >>
    /\ last = [op |-> "constructor", pre |-> Null]
    /\ queues = [S \in Supervisors |-> << >>]
    /\ registry = [a \in RoutedAddresses |-> << >>]
    /\ invocations = << >>
    /\ posted = << >>
    /\ inflight = {}
    /\ timers = << >>
    /\ entered = << >>
    /\ processed = 0
    /\ outcomes = << >>

\* ------------------------------------------- install_plugin (lines 42-51)
install_plugin(a, p, slot) ==
    CASE slot = INIT -> [a EXCEPT !.init_plugins = Append(@, p)]
      [] slot = SHUTDOWN -> [a EXCEPT !.shutdown_plugins = Append(@, p)]
      [] slot = SUBSCRIPTION -> [a EXCEPT !.subscription_plugins = Append(@, p)]
      [] slot = UNSUBSCRIPTION -> [a EXCEPT !.unsubscription_plugins = Append(@, p)]

\* ----------------------------------------- uninstall_plugin (lines 53-63)
\* the switch: the sequence the slot names, and the actor with it replaced
slot_plugins(a, slot) ==
    CASE slot = INIT -> a.init_plugins
      [] slot = SHUTDOWN -> a.shutdown_plugins
      [] slot = SUBSCRIPTION -> a.subscription_plugins
      [] slot = UNSUBSCRIPTION -> a.unsubscription_plugins

with_slot_plugins(a, slot, dest) ==
    CASE slot = INIT -> [a EXCEPT !.init_plugins = dest]
      [] slot = SHUTDOWN -> [a EXCEPT !.shutdown_plugins = dest]
      [] slot = SUBSCRIPTION -> [a EXCEPT !.subscription_plugins = dest]
      [] slot = UNSUBSCRIPTION -> [a EXCEPT !.unsubscription_plugins = dest]

\* std::find(dest->begin(), dest->end(), &plugin): the first position that
\* holds the plugin, Len(dest) + 1 (end()) when none does
find(dest, p) ==
    IF \E i \in 1 .. Len(dest) : dest[i] = p
    THEN CHOOSE i \in 1 .. Len(dest) :
            dest[i] = p /\ \A j \in 1 .. i - 1 : dest[j] # p
    ELSE Len(dest) + 1

\* dest->erase(it) for an iterator to an element
erase(dest, it) == SubSeq(dest, 1, it - 1) \o SubSeq(dest, it + 1, Len(dest))

\* dest->erase(dest->end()) is undefined: the program may end there, lose the
\* element at the back, or go on with the container as it was
UndefinedErase == {"crash", "pop_back", "none"}

erase_end(a, slot, ub) ==
    LET dest == slot_plugins(a, slot)
    IN CASE ub = "crash" -> [a EXCEPT !.aborted = "uninstall_plugin: erase(end())"]
         [] ub = "pop_back" ->
                with_slot_plugins(a, slot, SubSeq(dest, 1, Len(dest) - 1))
         [] ub = "none" -> a

\* mutant: the plugin is searched from the back
uninstall_plugin_from_back(a, p, slot, ub) ==
    LET dest == slot_plugins(a, slot)
        occurrences == { i \in 1 .. Len(dest) : dest[i] = p }
    IN IF occurrences = {} THEN erase_end(a, slot, ub)
       ELSE with_slot_plugins(a, slot,
                erase(dest, CHOOSE i \in occurrences : \A j \in occurrences : j <= i))

uninstall_plugin(a, p, slot, ub) ==
    LET dest == slot_plugins(a, slot)
        it == find(dest, p)
    IN IF it = Len(dest) + 1 THEN erase_end(a, slot, ub)
       ELSE with_slot_plugins(a, slot, erase(dest, it))

\* ------------------------------- commit_plugin_deactivation (lines 90-92)
\* mutant: the identity is not erased
commit_plugin_deactivation_keeps(a, p) == a

commit_plugin_deactivation(a, p) ==
    [a EXCEPT !.deactivating_plugins = @ \ { identity(p) }]

\* the plugin drops its back reference (actor = nullptr): without it the plugin
\* cannot commit anything to the actor any more
plugin_reset(a, p) ==
    [a EXCEPT !.plugin_actor[p] = FALSE,
              !.pending_activation = @ \ {p},
              !.pending_deactivation = @ \ {p}]

\* plugin_t::deactivate(): the plugin either confirms at once and drops its
\* back reference, or confirms later (env.later_deactivation)
plugin_deactivate(a, p, env) ==
    LET later == p \in env.later_deactivation
        a1 == [Ev(a, "deactivate", p, IF later THEN "later" ELSE "sync") EXCEPT
                   !.completed.deactivate[p] = @ + 1]
    IN IF later
       THEN [a1 EXCEPT !.pending_deactivation = @ \cup {p}]
       ELSE plugin_reset(commit_plugin_deactivation(a1, p), p)

\* ------------------------------------- deactivate_plugins (lines 80-88)
\* `i` is the position the reverse iterator stands at; 0 is rend()
RECURSIVE deactivate_plugins_loop(_, _, _)
deactivate_plugins_loop(a, i, env) ==
    IF i = 0 THEN a
    ELSE LET p == plugins[i]
         IN IF a.plugin_actor[p]
            THEN LET a1 == [Ev(a, "insert", p, "") EXCEPT
                                !.deactivating_plugins = @ \cup { identity(p) }]
                 IN deactivate_plugins_loop(plugin_deactivate(a1, p, env), i - 1, env)
            ELSE deactivate_plugins_loop(a, i - 1, env)

\* mutant: the plugins are visited in the configured order, not in its reverse
RECURSIVE deactivate_plugins_forward_loop(_, _, _)
deactivate_plugins_forward_loop(a, i, env) ==
    IF i > Len(plugins) THEN a
    ELSE LET p == plugins[i]
         IN IF a.plugin_actor[p]
            THEN LET a1 == [Ev(a, "insert", p, "") EXCEPT
                                !.deactivating_plugins = @ \cup { identity(p) }]
                 IN deactivate_plugins_forward_loop(plugin_deactivate(a1, p, env),
                                                    i + 1, env)
            ELSE deactivate_plugins_forward_loop(a, i + 1, env)

deactivate_plugins_forward(a, env) ==
    deactivate_plugins_forward_loop(Ev(a, "deactivate_plugins", 0, ""), 1, env)

deactivate_plugins(a, env) ==
    deactivate_plugins_loop(Ev(a, "deactivate_plugins", 0, ""), Len(plugins), env)

\* --------------------------------- commit_plugin_activation (lines 72-78)
\* mutant: the identity is erased whatever the plugin reports
commit_plugin_activation_erases(a, p, success, env) ==
    IF success
    THEN [Ev(a, "commit_activation", p, "success") EXCEPT
              !.activating_plugins = @ \ { identity(p) },
              !.completed.activation = @ \cup {p}]
    ELSE deactivate_plugins(
             [Ev(a, "commit_activation", p, "failure") EXCEPT
                  !.activating_plugins = @ \ { identity(p) },
                  !.completed.failure = TRUE], env)

commit_plugin_activation(a, p, success, env) ==
    IF success
    THEN [Ev(a, "commit_activation", p, "success") EXCEPT
              !.activating_plugins = @ \ { identity(p) },
              !.completed.activation = @ \cup {p}]
    ELSE deactivate_plugins(
             [Ev(a, "commit_activation", p, "failure") EXCEPT
                  !.completed.failure = TRUE], env)

\* plugin_t::activate(actor): the plugin sets its back reference, installs
\* itself into the slots it takes part in (env.slots[p]) and confirms the
\* activation at once, reports its failure at once, or confirms later
RECURSIVE plugin_install(_, _, _)
plugin_install(a, p, slots) ==
    IF slots = << >> THEN a
    ELSE plugin_install(install_plugin(a, p, Head(slots)), p, Tail(slots))

plugin_activate(a, p, env) ==
    LET a1 == [Ev(a, "activate", p, "") EXCEPT !.plugin_actor[p] = TRUE]
        a2 == plugin_install(a1, p, env.slots[p])
    IN CASE env.activation[p] = "success" -> commit_plugin_activation(a2, p, TRUE, env)
         [] env.activation[p] = "failure" -> commit_plugin_activation(a2, p, FALSE, env)
         [] env.activation[p] = "later" ->
                [a2 EXCEPT !.pending_activation = @ \cup {p}]

\* --------------------------------------- activate_plugins (lines 66-70)
RECURSIVE activate_plugins_loop(_, _, _)
activate_plugins_loop(a, i, env) ==
    IF i > Len(plugins) THEN a
    ELSE activate_plugins_loop(plugin_activate(a, plugins[i], env), i + 1, env)

activate_plugins(a, env) == activate_plugins_loop(a, 1, env)

\* ------------------------------------------ do_initialize (lines 33-35)
do_initialize(a, env) == activate_plugins(a, env)

\* what the plugins of a run may answer during activation
ActivationAnswers == {"success", "failure", "later"}

\* the supervisor calls do_initialize() once, on the new actor
DoInitialize(answers, choices) ==
    /\ Running
    /\ ~phase.activated
    /\ ~phase.destroyed
    /\ \E activation \in [Plugins -> answers], slots \in [Plugins -> choices],
          later \in SUBSET Plugins :
          LET env == [activation |-> activation, slots |-> slots,
                      later_deactivation |-> later]
          IN Store("do_initialize",
                   do_initialize([Self EXCEPT !.phase.activated = TRUE], env))

\* a plugin that answered "later" commits its activation
CommitPluginActivation ==
    /\ Running
    /\ ~phase.destroyed
    /\ \E p \in pending_activation, success \in BOOLEAN, later \in SUBSET Plugins :
          LET env == [later_deactivation |-> later]
              a == [Self EXCEPT !.pending_activation = @ \ {p}]
          IN Store("commit_plugin_activation",
                   commit_plugin_activation(a, p, success, env))

\* a plugin whose deactivate() was called commits its deactivation and
\* drops its back reference
CommitPluginDeactivation ==
    /\ Running
    /\ ~phase.destroyed
    /\ \E p \in pending_deactivation :
          Store("commit_plugin_deactivation",
                plugin_reset(
                    commit_plugin_deactivation(Ev(Self, "commit_deactivation", p, ""), p),
                    p))

\* -------------------------------------------- ~actor_base_t (lines 23-31)
destructor(a, ndebug) ==
    LET a1 == Asserted(a, a.deactivating_plugins = {}, "~actor_base_t", ndebug)
    IN IF a1.aborted # Null THEN a1
       ELSE [a1 EXCEPT !.phase.destroyed = TRUE,
                       !.plugin_actor = [p \in Plugins |-> FALSE]]

Destructor ==
    /\ Running
    /\ ~phase.destroyed
    /\ \E ndebug \in Builds : Store("destructor", destructor(Self, ndebug))

\* ------------------------------------------------ init_start (lines 94-96)
init_start(a) == [a EXCEPT !.state = INITIALIZING]

\* ---------------------------------------------- init_finish (lines 98-102)
\* mutant: the stored request is not reset after the reply
init_finish_keeps_request(a) ==
    [reply_to(a, a.init_request) EXCEPT !.state = INITIALIZED]

\* *init_request on an empty pointer is undefined: the run ends there
init_finish(a) ==
    IF a.init_request = Null
    THEN [a EXCEPT !.aborted = "init_finish: *init_request"]
    ELSE [reply_to(a, a.init_request) EXCEPT !.init_request = Null,
                                             !.state = INITIALIZED]

\* ------------------------------------------------ on_start (lines 104-106)
on_start(a) == [a EXCEPT !.state = OPERATIONAL]

\* ------------------------------------------ shutdown_start (lines 108-110)
shutdown_start(a) == [a EXCEPT !.state = SHUTTING_DOWN]

\* ----------------------------------------- shutdown_finish (lines 112-121)
shutdown_finish(a) ==
    LET a1 == IF a.shutdown_request # Null
              THEN [reply_to(a, a.shutdown_request) EXCEPT !.shutdown_request = Null]
              ELSE a
    IN [a1 EXCEPT !.state = SHUTTED_DOWN]

\* -------------------------------------------- init_continue (lines 123-136)
\* mutant: the plugin at the front is asked, the one at the back is popped
RECURSIVE init_continue_loop_pop_back(_, _)
init_continue_loop_pop_back(a, answers) ==
    IF a.init_plugins = << >> THEN a
    ELSE LET plugin == Head(a.init_plugins)
         IN IF answers[plugin]
            THEN init_continue_loop_pop_back(
                     [Ev(a, "handle_init", plugin, "true") EXCEPT
                          !.init_plugins = SubSeq(@, 1, Len(@) - 1),
                          !.completed.init = Append(@, plugin)], answers)
            ELSE Ev(a, "handle_init", plugin, "false")

\* the while loop: answers[p] is what plugin p's handle_init returns
RECURSIVE init_continue_loop(_, _)
init_continue_loop(a, answers) ==
    IF a.init_plugins = << >> THEN a
    ELSE LET plugin == Head(a.init_plugins)
         IN IF answers[plugin]
            THEN init_continue_loop(
                     [Ev(a, "handle_init", plugin, "true") EXCEPT
                          !.init_plugins = Tail(@),
                          !.completed.init = Append(@, plugin)], answers)
            ELSE Ev(a, "handle_init", plugin, "false")

init_continue(a, answers, ndebug) ==
    LET a1 == Asserted(a, a.state = INITIALIZING, "init_continue", ndebug)
        a2 == init_continue_loop(a1, answers)
    IN IF a1.aborted # Null THEN a1
       ELSE IF a2.init_plugins = << >> THEN init_finish(a2) ELSE a2

\* ---------------------------------------- shutdown_continue (lines 141-154)
\* mutant: the walk goes from the front, as the init walk does
RECURSIVE shutdown_continue_loop_from_front(_, _)
shutdown_continue_loop_from_front(a, answers) ==
    IF a.shutdown_plugins = << >> THEN a
    ELSE LET plugin == Head(a.shutdown_plugins)
         IN IF answers[plugin]
            THEN shutdown_continue_loop_from_front(
                     [Ev(a, "handle_shutdown", plugin, "true") EXCEPT
                          !.shutdown_plugins = Tail(@),
                          !.completed.shutdown = Append(@, plugin)], answers)
            ELSE Ev(a, "handle_shutdown", plugin, "false")

\* the while loop: answers[p] is what plugin p's handle_shutdown returns
RECURSIVE shutdown_continue_loop(_, _)
shutdown_continue_loop(a, answers) ==
    IF a.shutdown_plugins = << >> THEN a
    ELSE LET n == Len(a.shutdown_plugins)
             plugin == a.shutdown_plugins[n]
         IN IF answers[plugin]
            THEN shutdown_continue_loop(
                     [Ev(a, "handle_shutdown", plugin, "true") EXCEPT
                          !.shutdown_plugins = SubSeq(@, 1, n - 1),
                          !.completed.shutdown = Append(@, plugin)], answers)
            ELSE Ev(a, "handle_shutdown", plugin, "false")

shutdown_continue(a, answers, ndebug) ==
    LET a1 == Asserted(a, a.state = SHUTTING_DOWN, "shutdown_continue", ndebug)
        a2 == shutdown_continue_loop(a1, answers)
    IN IF a1.aborted # Null THEN a1
       ELSE IF a2.shutdown_plugins = << >> THEN shutdown_finish(a2) ELSE a2

\* ---------------------------------------------- do_shutdown (lines 37-40)
\* mutant: the shutdown is started inline, besides the trigger
do_shutdown_inline(a, ndebug) ==
    shutdown_start(send(a, "shutdown_trigger", supervisor_address,
                        [actor_address |-> address]))

do_shutdown(a, ndebug) ==
    LET a1 == Asserted(a, a.state # STATE_NEW, "do_shutdown", ndebug)
    IN IF a1.aborted # Null THEN a1
       ELSE send(a1, "shutdown_trigger", supervisor_address,
                 [actor_address |-> address])

\* ---------------------------------------------------- poll (lines 173-185)
\* `base` is rit.base() as a position of the slot (Len + 1 is end(), 1 is
\* begin()); the reverse iterator stands at the plugin before it
\* mutant: after an erase the reverse iterator is advanced once more
RECURSIVE poll_loop_skips(_, _, _)
poll_loop_skips(r, base, answers) ==
    IF base <= 1 THEN r
    ELSE LET it == base - 1
             plugin == r.plugins[it]
             result == answers[plugin]
             r1 == [r EXCEPT !.calls = Append(@, [ev |-> "poll", p |-> plugin, r |-> result])]
         IN CASE result = IGNORED -> poll_loop_skips(r1, base - 1, answers)
              [] result = CONSUMED -> r1
              [] result = FINISHED ->
                     poll_loop_skips([r1 EXCEPT !.plugins =
                                          SubSeq(@, 1, it - 1) \o SubSeq(@, it + 1, Len(@))],
                                     it - 1, answers)

RECURSIVE poll_loop(_, _, _)
poll_loop(r, base, answers) ==
    IF base = 1 THEN r
    ELSE LET it == base - 1
             plugin == r.plugins[it]
             result == answers[plugin]
             r1 == [r EXCEPT !.calls = Append(@, [ev |-> "poll", p |-> plugin, r |-> result])]
         IN CASE result = IGNORED -> poll_loop(r1, base - 1, answers)
              [] result = CONSUMED -> r1
              [] result = FINISHED ->
                     \* it = plugins.erase(it); rit = reverse_iterator(it)
                     poll_loop([r1 EXCEPT !.plugins =
                                    SubSeq(@, 1, it - 1) \o SubSeq(@, it + 1, Len(@))],
                               it, answers)

poll(slot, answers) ==
    poll_loop([plugins |-> slot, calls |-> << >>], Len(slot) + 1, answers)

\* ----------------------------------------- on_subscription (lines 187-197)
on_subscription(a, answers) ==
    LET r == poll(a.subscription_plugins, answers)
    IN [a EXCEPT !.subscription_plugins = r.plugins, !.calls = @ \o r.calls]

\* --------------------------------------- on_unsubscription (lines 199-209)
on_unsubscription(a, answers) ==
    LET r == poll(a.unsubscription_plugins, answers)
    IN [a EXCEPT !.unsubscription_plugins = r.plugins, !.calls = @ \o r.calls]

\* ------------------------------ on_unsubscription_external (lines 211-221)
on_unsubscription_external(a, answers) ==
    LET r == poll(a.unsubscription_plugins, answers)
    IN [a EXCEPT !.unsubscription_plugins = r.plugins, !.calls = @ \o r.calls]

\* --------------------------------------------- unsubscribe (lines 156-167)
\* subscription_point_t{h, addr}
subscription_point(h, addr) == [handler |-> h, address |-> addr]

\* a message enters the queue of the supervisor that will deliver it
enqueue(a, type, dest, payload) ==
    [a EXCEPT !.queue = Append(@, [type |-> type, dest |-> dest, payload |-> payload])]

\* send<payload_t>(dest, args...): the message is built and queued
send_queued(a, type, dest, payload) ==
    enqueue(send(a, type, dest, payload), type, dest, payload)

\* mutant: the confirmation goes to the caller's own address
unsubscribe_to_self(a, h, addr, callback, ndebug) ==
    LET point == subscription_point(h, addr)
    IN IF addr.supervisor = this
       THEN send_queued(a, "unsubscription_confirmation", address,
                        [point |-> point, callback |-> callback])
       ELSE LET a1 == Asserted(a, callback = Null, "unsubscribe", ndebug)
            IN IF a1.aborted # Null THEN a1
               ELSE send_queued(a1, "external_unsubscription", address,
                                [point |-> point])

\* mutant: the callback travels on the external path as well
unsubscribe_external_callback(a, h, addr, callback, ndebug) ==
    LET dest == h.actor_address
        point == subscription_point(h, addr)
    IN IF addr.supervisor = this
       THEN send_queued(a, "unsubscription_confirmation", dest,
                        [point |-> point, callback |-> callback])
       ELSE send_queued(a, "external_unsubscription", dest,
                        [point |-> point, callback |-> callback])

unsubscribe(a, h, addr, callback, ndebug) ==
    LET dest == h.actor_address
        point == subscription_point(h, addr)
    IN IF addr.supervisor = this
       THEN send_queued(a, "unsubscription_confirmation", dest,
                        [point |-> point, callback |-> callback])
       ELSE LET a1 == Asserted(a, callback = Null, "unsubscribe", ndebug)
            IN IF a1.aborted # Null THEN a1
               ELSE send_queued(a1, "external_unsubscription", dest,
                                [point |-> point])

\* ------------- ~unsubscription_confirmation_t (messages.hpp, lines 193-197)
\* mutant: the destructor does not look at the callback
unsubscription_confirmation_destructor_silent(a, payload) == a

unsubscription_confirmation_destructor(a, payload) ==
    IF payload.callback # Null
    THEN [Ev(a, "invoke", 0, payload.callback) EXCEPT
              !.invoked = Append(@, payload.callback)]
    ELSE a

\* ------------------------------------------ the delivery of the messages
\* the queue without its i-th message
dequeue(a, i) ==
    [a EXCEPT !.queue = SubSeq(@, 1, i - 1) \o SubSeq(@, i + 1, Len(@))]

\* the callback a payload carries: none when the payload has no such member
callback_of(payload) ==
    IF "callback" \in DOMAIN payload THEN payload.callback ELSE Null

\* An unsubscription confirmation is delivered: the actor it is addressed to
\* handles it, then the message is released and its payload destroyed.
deliver_unsubscription(a, i, answers) ==
    LET message == a.queue[i]
        a1 == Ev(dequeue(a, i), "deliver", 0, message)
        a2 == IF message.dest = address THEN on_unsubscription(a1, answers)
              ELSE Ev(a1, "handled_elsewhere", 0, message.dest)
        a3 == [a2 EXCEPT !.delivered = Append(@, message)]
    IN unsubscription_confirmation_destructor(a3, message.payload)

\* An external unsubscription is delivered: the actor it is addressed to
\* handles it, and the supervisor that owns the address answers with
\* commit_unsubscription{point}.
deliver_unsubscription_external(a, i, answers) ==
    LET message == a.queue[i]
        a1 == Ev(dequeue(a, i), "deliver", 0, message)
        a2 == IF message.dest = address THEN on_unsubscription_external(a1, answers)
              ELSE Ev(a1, "handled_elsewhere", 0, message.dest)
    IN enqueue(a2, "commit_unsubscription", supervisor_address,
               [point |-> message.payload.point])

\* The commit is delivered: the local supervisor issues the unsubscription
\* confirmation for the point, with the callback the commit carries.
deliver_commit_unsubscription(a, i) ==
    LET message == a.queue[i]
        a1 == Ev(dequeue(a, i), "deliver", 0, message)
    IN enqueue(a1, "unsubscription_confirmation",
               message.payload.point.handler.actor_address,
               [point |-> message.payload.point,
                callback |-> callback_of(message.payload)])

\* the handler of the init request: the request is stored, then
\* init_start() and init_continue()
on_init(a, answers, ndebug) ==
    LET a1 == [Ev(a, "store", 0, InitRequest) EXCEPT !.init_request = InitRequest]
    IN init_continue(init_start(a1), answers, ndebug)

\* the handler of the shutdown request: the request is stored (a root
\* supervisor has none), then shutdown_start() and shutdown_continue()
on_shutdown(a, request, answers, ndebug) ==
    LET a1 == [Ev(a, "store", 0, request) EXCEPT !.shutdown_request = request]
    IN shutdown_continue(shutdown_start(a1), answers, ndebug)

\* ------------------------------------------------------------ the handlers
\* the plugins of a slot: the ones a walk over the slot can ask
InSlot(slot) == { slot[i] : i \in 1 .. Len(slot) }

\* The init request is the first message the supervisor sends to the actor
\* it created: the request is stored, init_start() and init_continue() run.
\* `returns` is what a handle_init of the run may return.
OnInitReturning(returns) ==
    /\ Running
    /\ phase.activated /\ ~phase.init
    /\ \E answers \in [InSlot(init_plugins) -> returns], ndebug \in Builds :
          Store("on_init",
                on_init([Self EXCEPT !.phase.init = TRUE], answers, ndebug))

OnInit == OnInitReturning(BOOLEAN)

\* A plugin that suspended the init (its handle_init returned false) calls
\* init_continue() again.
ResumeInitReturning(returns) ==
    /\ Running
    /\ phase.init /\ init_plugins # << >>
    /\ \E answers \in [InSlot(init_plugins) -> returns], ndebug \in Builds :
          Store("init_continue", init_continue(Self, answers, ndebug))

ResumeInit == ResumeInitReturning(BOOLEAN)

\* The supervisor answers the init reply with the start trigger.
OnStart ==
    /\ Running
    /\ ~phase.start
    /\ \E i \in 1 .. Len(outbox) :
          outbox[i].type = "response" /\ outbox[i].payload = InitRequest
    /\ Store("on_start", on_start([Self EXCEPT !.phase.start = TRUE]))

\* The actor's own code asks for its shutdown.
DoShutdown ==
    /\ Running
    /\ phase.init
    /\ phase.triggers < MaxTriggers
    /\ \E ndebug \in Builds :
          Store("do_shutdown",
                do_shutdown([Self EXCEPT !.phase.triggers = @ + 1], ndebug))

\* The supervisor's shutdown request arrives (after a shutdown trigger or an
\* init timeout); a root supervisor shuts down without a stored request.
OnShutdown ==
    /\ Running
    /\ phase.init /\ ~phase.shutdown
    /\ \E stored \in {ShutdownRequest, Null},
          answers \in [InSlot(shutdown_plugins) -> BOOLEAN],
          ndebug \in Builds :
          Store("on_shutdown",
                on_shutdown([Self EXCEPT !.phase.shutdown = TRUE], stored, answers, ndebug))

\* A plugin that suspended the shutdown calls shutdown_continue() again.
ResumeShutdownReturning(returns) ==
    /\ Running
    /\ phase.shutdown /\ shutdown_plugins # << >>
    /\ \E answers \in [InSlot(shutdown_plugins) -> returns], ndebug \in Builds :
          Store("shutdown_continue", shutdown_continue(Self, answers, ndebug))

ResumeShutdown == ResumeShutdownReturning(BOOLEAN)

\* A subscription confirmation is delivered to the actor.
OnSubscription ==
    /\ Running
    /\ phase.activated
    /\ \E answers \in [InSlot(subscription_plugins) -> ProcessingResults] :
          Store("on_subscription", on_subscription(Self, answers))

\* An unsubscription confirmation is delivered to the actor.
OnUnsubscription ==
    /\ Running
    /\ phase.activated
    /\ \E answers \in [InSlot(unsubscription_plugins) -> ProcessingResults] :
          Store("on_unsubscription", on_unsubscription(Self, answers))

\* An external unsubscription is delivered to the actor.
OnUnsubscriptionExternal ==
    /\ Running
    /\ phase.activated
    /\ \E answers \in [InSlot(unsubscription_plugins) -> ProcessingResults] :
          Store("on_unsubscription_external", on_unsubscription_external(Self, answers))

\* one entry of slot_calls
SlotCall(op, p, slot, before, a) ==
    [a EXCEPT !.slot_calls =
         Append(@, [op |-> op, p |-> p, slot |-> slot, before |-> before,
                    after |-> slot_plugins(a, slot)])]

\* A plugin installs itself into a slot after its activation.
InstallPlugin ==
    /\ Running
    /\ phase.activated
    /\ Len(slot_calls) < MaxSlotCalls
    /\ \E p \in Plugins, slot \in Slots :
          Store("install_plugin",
                SlotCall("install_plugin", p, slot, slot_plugins(Self, slot),
                         install_plugin(Self, p, slot)))

\* A plugin takes itself out of a slot.
UninstallPlugin ==
    /\ Running
    /\ phase.activated
    /\ Len(slot_calls) < MaxSlotCalls
    /\ \E p \in Plugins, slot \in Slots, ub \in UndefinedErase :
          Store("uninstall_plugin",
                SlotCall("uninstall_plugin", p, slot, slot_plugins(Self, slot),
                         uninstall_plugin(Self, p, slot, ub)))

\* The actor's code calls unsubscribe(h, addr) or unsubscribe(h, addr, callback).
\* The callback of the k-th call is named after the call.
Unsubscribe ==
    /\ Running
    /\ phase.activated
    /\ Len(unsubscribes) < MaxUnsubscribes
    /\ \E h \in Handlers, addr \in Addresses,
          callback \in {Null, "on_done_" \o ToString(Len(unsubscribes) + 1)},
          ndebug \in Builds :
          LET a == [Self EXCEPT !.unsubscribes =
                        Append(@, [h |-> h, addr |-> addr, callback |-> callback])]
          IN Store("unsubscribe", unsubscribe(a, h, addr, callback, ndebug))

\* the message of the queue that is delivered next: the oldest one
Deliverable(type) ==
    { i \in 1 .. Len(queue) : i = 1 /\ queue[i].type = type }

\* what the plugins polled on a delivery answer: they stay in their slot (the
\* erasure after FINISHED is the matter of NextPoll)
DeliveryResults == { IGNORED, CONSUMED }

DeliverUnsubscription ==
    /\ Running
    /\ \E i \in Deliverable("unsubscription_confirmation") :
       \E answers \in [InSlot(unsubscription_plugins) -> DeliveryResults] :
          Store("deliver_unsubscription", deliver_unsubscription(Self, i, answers))

DeliverUnsubscriptionExternal ==
    /\ Running
    /\ \E i \in Deliverable("external_unsubscription") :
       \E answers \in [InSlot(unsubscription_plugins) -> DeliveryResults] :
          Store("deliver_unsubscription_external",
                deliver_unsubscription_external(Self, i, answers))

DeliverCommitUnsubscription ==
    /\ Running
    /\ \E i \in Deliverable("commit_unsubscription") :
          Store("deliver_commit_unsubscription", deliver_commit_unsubscription(Self, i))

\* ------------------------------------------- the supervisors' delivery
\* the routing as one value
Routing == [queues |-> queues, registry |-> registry,
            invocations |-> invocations, posted |-> posted]

StoreRouting(op, w, log) ==
    /\ queues' = w.queues
    /\ registry' = w.registry
    /\ invocations' = w.invocations
    /\ posted' = w.posted
    /\ last' = [op |-> op, pre |-> Routing]
    /\ calls' = log
    /\ UNCHANGED << actor, correlation >>

\* the handler runs, on supervisor S
invoke(w, S, handler, message) ==
    [w EXCEPT !.invocations =
         Append(@, [handler |-> handler, message |-> message, on |-> S])]

\* payload::handler_call_t
handler_call(message, handler) ==
    [type |-> "handler_call",
     payload |-> [orig_message |-> message, handler |-> handler]]

\* mutant: every handler is invoked where the message is delivered
RECURSIVE deliver_inline(_, _, _, _)
deliver_inline(w, S, message, handlers) ==
    IF handlers = << >> THEN w
    ELSE deliver_inline(invoke(w, S, Head(handlers), message),
                        S, message, Tail(handlers))

\* deliver(message) on supervisor S: the handlers registered on the
\* destination in registration order; a handler of this supervisor is invoked,
\* another one is reached by a handler_call on its supervisor's queue
RECURSIVE deliver(_, _, _, _)
deliver(w, S, message, handlers) ==
    IF handlers = << >> THEN w
    ELSE LET h == Head(handlers)
             w1 == IF h.supervisor = S THEN invoke(w, S, h, message)
                   ELSE [w EXCEPT !.queues[h.supervisor] =
                             Append(@, handler_call(message, h))]
         IN deliver(w1, S, message, Tail(handlers))

\* supervisor S takes the oldest message of its queue
process(w, S) ==
    LET message == Head(w.queues[S])
        w1 == [w EXCEPT !.queues[S] = Tail(@)]
    IN IF message.type = "handler_call"
       THEN invoke(w1, S, message.payload.handler, message.payload.orig_message)
       ELSE deliver(w1, S, message, w1.registry[message.destination])

\* subscribe(handler, address): the point is recorded by the supervisor that
\* owns the address
Subscribe ==
    /\ \E handler \in RoutedHandlers, a \in RoutedAddresses :
          /\ Len(registry[a]) < MaxSubscriptions
          \* at most one address is given more than one handler
          /\ \A b \in RoutedAddresses \ {a} : Len(registry[b]) <= 1
          /\ StoreRouting("subscribe",
                          [Routing EXCEPT !.registry[a] = Append(@, handler)],
                          << >>)

\* a message is sent to an address: it enters the queue of the supervisor
\* that owns the address
Post ==
    /\ Len(posted) < MaxMessages
    /\ \E a \in RoutedAddresses :
          LET message == [type |-> "message", id |-> Len(posted) + 1,
                          destination |-> a]
          IN StoreRouting("post",
                          [Routing EXCEPT !.queues[a.supervisor] = Append(@, message),
                                          !.posted = Append(@, message)],
                          << >>)

\* a supervisor drains one message of its queue
Process ==
    \E S \in Supervisors :
       /\ queues[S] # << >>
       /\ StoreRouting("process", process(Routing, S),
                       << [ev |-> "process", p |-> S, r |-> Head(queues[S])] >>)

\* ------------------------------------------ the request/response correlator
\* the correlator as one value
Correlation == [inflight |-> inflight, timers |-> timers, entered |-> entered,
                processed |-> processed, outcomes |-> outcomes]

StoreCorrelation(op, c, log) ==
    /\ inflight' = c.inflight
    /\ timers' = c.timers
    /\ entered' = c.entered
    /\ processed' = c.processed
    /\ outcomes' = c.outcomes
    /\ last' = [op |-> op, pre |-> Correlation]
    /\ calls' = log
    /\ UNCHANGED << actor, routing >>

\* cancel(timer_id): a timer that has fired already is not taken back
cancel(c, id) ==
    IF c.timers[id] = "armed" THEN [c EXCEPT !.timers[id] = "cancelled"] ELSE c

\* mutant: the entry stays in the map after the response has been delivered
on_response_keeps_entry(c, id, kind) ==
    IF id \in c.inflight
    THEN [cancel(c, id) EXCEPT !.outcomes = Append(@, [id |-> id, kind |-> kind])]
    ELSE c

\* on response: the request is located by its id; with an entry the timer is
\* cancelled, the response delivered and the entry gone; without, the
\* response is dropped
on_response(c, id, kind) ==
    IF id \in c.inflight
    THEN [cancel(c, id) EXCEPT !.outcomes = Append(@, [id |-> id, kind |-> kind]),
                               !.inflight = @ \ {id}]
    ELSE c

\* on timeout fire: a response with the error request_timeout is dispatched
\* as if received, then the entry is cleared
on_timeout(c, id) ==
    [on_response(c, id, "request_timeout") EXCEPT !.inflight = @ \ {id}]

\* request<P>(dest, args...).send(timeout): the id, the entry, the timer
Request ==
    /\ Len(timers) < MaxRequests
    /\ LET id == Len(timers) + 1
       IN StoreCorrelation("request",
                           [Correlation EXCEPT !.inflight = @ \cup {id},
                                               !.timers = Append(@, "armed")],
                           << >>)

\* how many responses have entered the queue
Replies ==
    Len(SelectSeq(entered, LAMBDA e : e.kind = "response"))

\* the asked actor replies: the response enters the requester's supervisor
Reply ==
    \E id \in 1 .. Len(timers) :
       /\ Replies < MaxReplies
       /\ StoreCorrelation("reply",
                           [Correlation EXCEPT !.entered =
                                Append(@, [id |-> id, kind |-> "response"])],
                           << >>)

\* the timer of a request fires: its observation enters the queue
TimerFire ==
    \E id \in 1 .. Len(timers) :
       /\ timers[id] = "armed"
       /\ StoreCorrelation("timer_fire",
                           [Correlation EXCEPT !.timers[id] = "fired",
                                               !.entered = Append(@,
                                                    [id |-> id, kind |-> "request_timeout"])],
                           << >>)

\* the supervisor takes the oldest entry of its queue
Correlate ==
    /\ processed < Len(entered)
    /\ LET e == entered[processed + 1]
           c == [Correlation EXCEPT !.processed = @ + 1]
       IN StoreCorrelation("correlate",
                           IF e.kind = "response" THEN on_response(c, e.id, "response")
                           ELSE on_timeout(c, e.id),
                           << [ev |-> "correlate", p |-> e.id, r |-> e.kind] >>)

\* ------------------------------------------------------ the specifications
\* the slots a plugin installs itself into when it is activated
LifecycleSlots == { << >>, << INIT >>, << SHUTDOWN >>, << INIT, SHUTDOWN >> }
PollSlots == { << >>, << SUBSCRIPTION >>, << UNSUBSCRIPTION >>,
               << SUBSCRIPTION, UNSUBSCRIPTION >> }
AllSlots == { << INIT, SHUTDOWN, SUBSCRIPTION, UNSUBSCRIPTION >> }

\* the life of an actor whose plugins all activate
Next ==
    \/ DoInitialize({"success"}, LifecycleSlots)
    \/ OnInit
    \/ ResumeInit
    \/ OnStart
    \/ DoShutdown
    \/ OnShutdown
    \/ ResumeShutdown

Spec == Init /\ [][Next]_vars

\* the confirmations an actor receives
NextPoll ==
    \/ DoInitialize({"success"}, PollSlots)
    \/ OnSubscription
    \/ OnUnsubscription
    \/ OnUnsubscriptionExternal

SpecPoll == Init /\ [][NextPoll]_vars

\* the activation of the plugins, its failure, and the end of the actor
NextActivation ==
    \/ DoInitialize(ActivationAnswers, AllSlots)
    \/ CommitPluginActivation
    \/ CommitPluginDeactivation
    \/ Destructor

SpecActivation == Init /\ [][NextActivation]_vars

\* the life of an actor whose init plugins never complete: every plugin takes
\* the INIT slot and every handle_init returns false.  Each shutdown plugin
\* returns true in the end: the resumption in which all of them do is fair.
InitErrorSlots == { << INIT >>, << INIT, SHUTDOWN >> }

NextInitError ==
    \/ DoInitialize({"success"}, InitErrorSlots)
    \/ OnInitReturning({FALSE})
    \/ ResumeInitReturning({FALSE})
    \/ DoShutdown
    \/ OnShutdown
    \/ ResumeShutdown

SpecInitError ==
    Init /\ [][NextInitError]_vars /\ WF_vars(ResumeShutdownReturning({TRUE}))

\* the slots of an actor whose plugins install and uninstall themselves
NoneOrAllSlots == { << >>, << INIT, SHUTDOWN, SUBSCRIPTION, UNSUBSCRIPTION >> }

NextSlots ==
    \/ DoInitialize({"success"}, NoneOrAllSlots)
    \/ InstallPlugin
    \/ UninstallPlugin

SpecSlots == Init /\ [][NextSlots]_vars

\* the unsubscriptions of an actor and the delivery of their messages
UnsubscribeSlots == { << >>, << UNSUBSCRIPTION >> }

NextUnsubscribe ==
    \/ DoInitialize({"success"}, UnsubscribeSlots)
    \/ Unsubscribe
    \/ DeliverUnsubscription
    \/ DeliverUnsubscriptionExternal
    \/ DeliverCommitUnsubscription

SpecUnsubscribe == Init /\ [][NextUnsubscribe]_vars

\* the routing of messages between two supervisors
NextRouting ==
    \/ Subscribe
    \/ Post
    \/ Process

SpecRouting == Init /\ [][NextRouting]_vars

\* the requests of an actor, their responses and their timeouts
NextCorrelation ==
    \/ Request
    \/ Reply
    \/ TimerFire
    \/ Correlate

SpecCorrelation == Init /\ [][NextCorrelation]_vars

\* ================================================================ claims
\* what the last handler asked, by kind of call
Asked(ev) == SelectSeq(calls, LAMBDA e : e.ev = ev)
Positions(s, x) == { i \in 1 .. Len(s) : s[i] = x }
InitReply == [type |-> "response", dest |-> supervisor_address, payload |-> InitRequest]
ShutdownReply == [type |-> "response", dest |-> supervisor_address,
                  payload |-> ShutdownRequest]
Count(s, x) == Cardinality(Positions(s, x))
Stepped == last.op # "constructor"
\* the last handler was init_continue() (called by the init request's handler
\* or by a plugin) and it ran past its assert()
InitContinued == last.op \in {"on_init", "init_continue"} /\ aborted = Null
ShutdownContinued == last.op \in {"on_shutdown", "shutdown_continue"} /\ aborted = Null
\* the slot as init_continue() / shutdown_continue() found it
InitSlotBefore == last.pre.init_plugins
ShutdownSlotBefore == last.pre.shutdown_plugins

Rank(s) ==
    CASE s = STATE_NEW -> 0
      [] s = INITIALIZING -> 1
      [] s = INITIALIZED -> 2
      [] s = OPERATIONAL -> 3
      [] s = SHUTTING_DOWN -> 4
      [] s = SHUTTED_DOWN -> 5

\* C1: no handler moves the actor to an earlier state of the order
\* NEW < INITIALIZING < INITIALIZED < OPERATIONAL < SHUTTING_DOWN < SHUT_DOWN;
\* in particular NEW and INITIALIZING are never entered again.
C1_Monotone ==
    Stepped => /\ Rank(state) >= Rank(last.pre.state)
               /\ (state = STATE_NEW => last.pre.state = STATE_NEW)
               /\ (state = INITIALIZING =>
                       last.pre.state \in {STATE_NEW, INITIALIZING})

\* C2: init_continue() asks the plugins of init_plugins from the front: the
\* plugins asked are a prefix of the slot, in the slot's order; every answer
\* but the last is true and removes the plugin from the front; a false answer
\* ends the walk and its plugin stays at the front; and no plugin that has
\* returned true in an earlier call is asked.
C2_InitFrontToBack ==
    InitContinued =>
        LET asked == Asked("handle_init")
            n == Len(asked)
            trues == Len(SelectSeq(asked, LAMBDA e : e.r = "true"))
        IN /\ n <= Len(InitSlotBefore)
           /\ \A i \in 1 .. n : asked[i].p = InitSlotBefore[i]
           /\ \A i \in 1 .. n : asked[i].r = "false" => i = n
           /\ init_plugins = SubSeq(InitSlotBefore, trues + 1, Len(InitSlotBefore))
           /\ (n > 0 /\ asked[n].r = "false" => Head(init_plugins) = asked[n].p)
           /\ (n < Len(InitSlotBefore) => n > 0 /\ asked[n].r = "false")
           /\ \A i \in 1 .. n : Count(last.pre.completed.init, asked[i].p) = 0

\* C2 witness: a resumed init_continue() asks a second plugin after a first
\* returned true, while an earlier call had already completed a plugin.
C2_Witness ==
    /\ last.op = "init_continue" /\ aborted = Null
    /\ Len(last.pre.completed.init) > 0
    /\ Len(Asked("handle_init")) = 2
    /\ Asked("handle_init")[2].r = "false"
    /\ init_plugins # << >>

\* what every init_continue() does with the reply and the state: it replies
\* once, clears the request and sets INITIALIZED when it leaves init_plugins
\* empty, and sends nothing and keeps the request otherwise
InitContinueEffect(unfinished_state) ==
    InitContinued =>
        IF init_plugins = << >>
        THEN /\ outbox = Append(last.pre.outbox, InitReply)
             /\ init_request = Null
             /\ state = INITIALIZED
        ELSE /\ outbox = last.pre.outbox
             /\ init_request = InitRequest
             /\ state \in unfinished_state

\* the init reply and INITIALIZED come from init_continue() alone, the reply
\* at most once; when every plugin asked returns true the call ends replied
InitReplyOnlyThere ==
    /\ Count(outbox, InitReply) <= 1
    /\ (Stepped /\ ~InitContinued =>
           /\ Count(outbox, InitReply) = Count(last.pre.outbox, InitReply)
           /\ (state = INITIALIZED => last.pre.state = INITIALIZED))
    /\ (InitContinued /\ (\A i \in 1 .. Len(calls) : calls[i].r # "false") =>
           state = INITIALIZED /\ Count(outbox, InitReply) = 1)

\* C3 (original): ... and as long as any init plugin remains in init_plugins
\* the state stays INITIALIZING and no init reply is sent.
C3_Original ==
    /\ InitContinueEffect({INITIALIZING})
    /\ InitReplyOnlyThere
    /\ (phase.init /\ init_plugins # << >> =>
           state = INITIALIZING /\ Count(outbox, InitReply) = 0)

\* C3 (amended): the actor replies to the init request, clears it and becomes
\* INITIALIZED exactly when init_continue() ends with init_plugins empty, at
\* most once; as long as any init plugin remains no init reply is sent and the
\* state is never INITIALIZED or OPERATIONAL: it stays INITIALIZING until
\* shutdown_start() moves it to SHUTTING_DOWN.
C3_InitReply ==
    /\ InitContinueEffect({INITIALIZING, SHUTTING_DOWN, SHUTTED_DOWN})
    /\ InitReplyOnlyThere
    /\ (phase.init /\ init_plugins # << >> =>
           /\ Count(outbox, InitReply) = 0
           /\ \/ state = INITIALIZING
              \/ phase.shutdown /\ state \in {SHUTTING_DOWN, SHUTTED_DOWN})

\* C3 witness: a resumed init_continue() empties init_plugins of an
\* INITIALIZING actor and replies.
C3_Witness ==
    /\ last.op = "init_continue" /\ aborted = Null
    /\ last.pre.state = INITIALIZING
    /\ Len(last.pre.init_plugins) >= 2
    /\ init_plugins = << >>
    /\ state = INITIALIZED
    /\ Count(outbox, InitReply) = 1

\* C4: shutdown_continue() asks the plugins of shutdown_plugins from the
\* back: the plugins asked are the end of the slot, last first; every answer
\* but the last is true and removes the plugin from the back; a false answer
\* ends the walk and its plugin stays; and the plugins that completed both
\* init and shutdown completed shutdown in the reverse of their init order.
C4_ShutdownBackToFront ==
    /\ ShutdownContinued =>
          LET asked == Asked("handle_shutdown")
              n == Len(asked)
              m == Len(ShutdownSlotBefore)
              trues == Len(SelectSeq(asked, LAMBDA e : e.r = "true"))
          IN /\ n <= m
             /\ \A i \in 1 .. n : asked[i].p = ShutdownSlotBefore[m + 1 - i]
             /\ \A i \in 1 .. n : asked[i].r = "false" => i = n
             /\ shutdown_plugins = SubSeq(ShutdownSlotBefore, 1, m - trues)
             /\ (n > 0 /\ asked[n].r = "false" =>
                     shutdown_plugins[Len(shutdown_plugins)] = asked[n].p)
             /\ (n < m => n > 0 /\ asked[n].r = "false")
    /\ \A i, j \in 1 .. Len(completed.init) :
          \A k, l \in 1 .. Len(completed.shutdown) :
             /\ i < j
             /\ completed.init[i] = completed.shutdown[k]
             /\ completed.init[j] = completed.shutdown[l]
             => l < k

\* C4 witness: a resumed shutdown_continue() asks two plugins from the back,
\* and two plugins have completed init and then shutdown.
C4_Witness ==
    /\ last.op = "shutdown_continue" /\ aborted = Null
    /\ Len(Asked("handle_shutdown")) = 2
    /\ Asked("handle_shutdown")[2].r = "false"
    /\ \E p, q \in Plugins :
          /\ p # q
          /\ Count(completed.init, p) = 1 /\ Count(completed.init, q) = 1
          /\ Count(completed.shutdown, p) = 1 /\ Count(completed.shutdown, q) = 1

\* whether a shutdown request was stored when shutdown_continue() ran
ShutdownStored ==
    IF last.op = "on_shutdown" THEN calls[1].r # Null
    ELSE last.pre.shutdown_request # Null

\* what every shutdown_continue() does: SHUT_DOWN, and the reply iff a request
\* is stored, when it leaves shutdown_plugins empty; nothing otherwise
ShutdownContinueEffect(unfinished_state) ==
    ShutdownContinued =>
        IF shutdown_plugins = << >>
        THEN /\ state = SHUTTED_DOWN
             /\ shutdown_request = Null
             /\ outbox = IF ShutdownStored THEN Append(last.pre.outbox, ShutdownReply)
                         ELSE last.pre.outbox
        ELSE /\ outbox = last.pre.outbox
             /\ shutdown_request = (IF ShutdownStored THEN ShutdownRequest ELSE Null)
             /\ state \in unfinished_state

ShutdownReplyOnlyThere ==
    /\ Count(outbox, ShutdownReply) <= 1
    /\ (Stepped /\ ~ShutdownContinued =>
           /\ Count(outbox, ShutdownReply) = Count(last.pre.outbox, ShutdownReply)
           /\ (state = SHUTTED_DOWN => last.pre.state = SHUTTED_DOWN))

\* C5: the actor becomes SHUT_DOWN exactly when shutdown_continue() ends with
\* shutdown_plugins empty, replying to the stored shutdown request iff one is
\* stored; while any shutdown plugin remains after shutdown_start() the state
\* stays SHUTTING_DOWN and no confirmation is sent; and a shutdown request is
\* confirmed at most once.
C5_ShutdownReply ==
    /\ ShutdownContinueEffect({SHUTTING_DOWN})
    /\ ShutdownReplyOnlyThere
    /\ (phase.shutdown /\ shutdown_plugins # << >> =>
           state = SHUTTING_DOWN /\ Count(outbox, ShutdownReply) = 0)

\* the part of C5 that does not depend on the state staying SHUTTING_DOWN
C5_Rest ==
    /\ ShutdownContinueEffect({STATE_NEW, INITIALIZING, INITIALIZED, OPERATIONAL,
                               SHUTTING_DOWN, SHUTTED_DOWN})
    /\ ShutdownReplyOnlyThere
    /\ (phase.shutdown /\ shutdown_plugins # << >> =>
           Count(outbox, ShutdownReply) = 0)

Reverse(s) == [i \in 1 .. Len(s) |-> s[Len(s) + 1 - i]]
PollOps == {"on_subscription", "on_unsubscription", "on_unsubscription_external"}
PolledSlotBefore ==
    IF last.op = "on_subscription" THEN last.pre.subscription_plugins
    ELSE last.pre.unsubscription_plugins
PolledSlot ==
    IF last.op = "on_subscription" THEN subscription_plugins
    ELSE unsubscription_plugins
OtherSlotsKept ==
    /\ init_plugins = last.pre.init_plugins
    /\ shutdown_plugins = last.pre.shutdown_plugins
    /\ (last.op = "on_subscription" =>
           unsubscription_plugins = last.pre.unsubscription_plugins)
    /\ (last.op # "on_subscription" =>
           subscription_plugins = last.pre.subscription_plugins)

\* C6: a confirmation polls the plugins of its slot from the back, each at
\* most once and none skipped: the plugins polled are the end of the slot,
\* last first; CONSUMED is the last answer of its poll and every plugin is
\* polled unless one answers CONSUMED; the slot afterwards is the slot before
\* without exactly the plugins that answered FINISHED, in the same order; the
\* other slots are unchanged.
C6_Poll ==
    last.op \in PollOps =>
        LET polled == Asked("poll")
            n == Len(polled)
            m == Len(PolledSlotBefore)
            finished == { polled[i].p : i \in { j \in 1 .. n : polled[j].r = FINISHED } }
        IN /\ n = Len(calls)
           /\ n <= m
           /\ \A i \in 1 .. n : polled[i].p = PolledSlotBefore[m + 1 - i]
           /\ \A i \in 1 .. n : polled[i].r = CONSUMED => i = n
           /\ (n < m => n > 0 /\ polled[n].r = CONSUMED)
           /\ PolledSlot = SelectSeq(PolledSlotBefore, LAMBDA p : p \notin finished)
           /\ OtherSlotsKept

\* C6 witness: a poll of three plugins in which the last plugin is ignored,
\* the middle one finishes and is removed, and the first one consumes.
C6_Witness ==
    /\ last.op = "on_unsubscription_external"
    /\ Len(calls) = 3
    /\ calls[1].r = IGNORED /\ calls[2].r = FINISHED /\ calls[3].r = CONSUMED
    /\ Len(unsubscription_plugins) = 2

\* the plugins whose back reference is set when the last handler reaches its
\* i-th call
ActiveAt(i) ==
    ({ p \in Plugins : last.pre.plugin_actor[p] }
        \cup { calls[j].p : j \in { k \in 1 .. i - 1 : calls[k].ev = "activate" } })
    \ { calls[j].p : j \in { k \in 1 .. i - 1 :
                                 calls[k].ev = "deactivate" /\ calls[k].r = "sync" } }
IsFailure(e) == e.ev = "commit_activation" /\ e.r = "failure"
\* the cascade that starts at call i: for every active plugin, in the reverse
\* of the configured order, its identity is inserted and deactivate() called
CascadeAt(i) ==
    LET visit == SelectSeq(Reverse(plugins), LAMBDA p : p \in ActiveAt(i))
        k == Len(visit)
    IN /\ calls[i].ev = "deactivate_plugins"
       /\ Len(calls) >= i + 2 * k
       /\ \A t \in 1 .. k :
             /\ calls[i + 2 * t - 1].ev = "insert" /\ calls[i + 2 * t - 1].p = visit[t]
             /\ calls[i + 2 * t].ev = "deactivate" /\ calls[i + 2 * t].p = visit[t]
       /\ (Len(calls) > i + 2 * k =>
              calls[i + 2 * k + 1].ev \notin {"insert", "deactivate"})

\* C7: every failure reported through commit_plugin_activation(plugin, false)
\* runs deactivate_plugins(): the plugins are visited in the reverse of the
\* configured order; each plugin whose back reference is set has its identity
\* inserted into deactivating_plugins and its deactivate() called; the others
\* are neither inserted nor called; and the identities stay in the set until
\* the plugin commits its deactivation.
C7_DeactivateReverse ==
    last.op \in {"do_initialize", "commit_plugin_activation"} =>
        /\ \A i \in 1 .. Len(calls) :
              /\ (IsFailure(calls[i]) => i < Len(calls) /\ CascadeAt(i + 1))
              /\ (calls[i].ev = "deactivate_plugins" => i > 1 /\ IsFailure(calls[i - 1]))
              /\ (calls[i].ev \in {"insert", "deactivate"} => completed.failure)
        /\ deactivating_plugins =
              (last.pre.deactivating_plugins
                  \cup { identity(calls[i].p) : i \in { k \in 1 .. Len(calls) :
                            calls[k].ev = "deactivate" /\ calls[k].r = "later" } })
              \ { identity(calls[i].p) : i \in { k \in 1 .. Len(calls) :
                            calls[k].ev = "deactivate" /\ calls[k].r = "sync" } }

\* C7 witness: a plugin commits its failure while plugin 1 is inactive and
\* plugins 2 and 3 are active: the cascade calls deactivate() of 3, then of 2.
C7_Witness ==
    /\ last.op = "commit_plugin_activation"
    /\ ~last.pre.plugin_actor[1]
    /\ last.pre.plugin_actor[2] /\ last.pre.plugin_actor[3]
    /\ Len(calls) >= 6
    /\ IsFailure(calls[1])
    /\ calls[3].ev = "insert" /\ calls[3].p = 3
    /\ calls[5].ev = "insert" /\ calls[5].p = 2
    /\ Len(Asked("deactivate")) = 2

\* C8: once a plugin has reported its activation failure during
\* do_initialize(), no further plugin is activated; and when a failure has
\* been reported and every deactivation has been committed, no plugin of the
\* actor is active.
C8_FailureAbortsActivation ==
    /\ last.op = "do_initialize" =>
          \A i, j \in 1 .. Len(calls) :
             i < j /\ IsFailure(calls[i]) => calls[j].ev # "activate"
    /\ completed.failure /\ pending_deactivation = {} =>
          \A p \in Plugins : ~plugin_actor[p]

\* C9: deactivating_plugins holds exactly the identities of the plugins whose
\* deactivate() was called and that have not committed since; a commit removes
\* the committing plugin's identity and nothing else; so the destructor's
\* assertion holds whenever no commit is outstanding, and fails otherwise.
C9_Destructible ==
    /\ deactivating_plugins = { identity(p) : p \in pending_deactivation }
    /\ (last.op = "commit_plugin_deactivation" =>
           /\ identity(calls[1].p) \in last.pre.deactivating_plugins
           /\ deactivating_plugins =
                  last.pre.deactivating_plugins \ { identity(calls[1].p) })
    /\ (last.op = "destructor" =>
           IF last.pre.pending_deactivation = {}
           THEN aborted = Null /\ build = last.pre.build /\ phase.destroyed
           ELSE aborted = "~actor_base_t" \/ build = "ndebug")

\* C9 witness: the actor is destroyed, its assertion held, after deactivate()
\* was called on every plugin and one of them had committed later.
C9_Witness ==
    /\ last.op = "destructor"
    /\ phase.destroyed /\ build = "any" /\ aborted = Null
    /\ \A p \in Plugins : completed.deactivate[p] > 0
    /\ \E p \in Plugins : completed.deactivate[p] > 1

\* C10: do_shutdown() sends exactly one shutdown_trigger, carrying the actor's
\* own address, to the supervisor's address and changes nothing else of the
\* actor: not the state, the stored requests or the slots; the state becomes
\* SHUTTING_DOWN only in the handler of the shutdown request.
C10_DoShutdownOnlySends ==
    /\ last.op = "do_shutdown" /\ aborted = Null =>
          /\ outbox = Append(last.pre.outbox,
                             [type |-> "shutdown_trigger", dest |-> supervisor_address,
                              payload |-> [actor_address |-> address]])
          /\ state = last.pre.state
          /\ shutdown_request = last.pre.shutdown_request
          /\ init_request = last.pre.init_request
          /\ init_plugins = last.pre.init_plugins
          /\ shutdown_plugins = last.pre.shutdown_plugins
          /\ subscription_plugins = last.pre.subscription_plugins
          /\ unsubscription_plugins = last.pre.unsubscription_plugins
    /\ Stepped /\ state = SHUTTING_DOWN /\ last.pre.state # SHUTTING_DOWN =>
          last.op = "on_shutdown"

\* C10 witness: do_shutdown() on an operational actor: the trigger is sent
\* and the actor is still OPERATIONAL.
C10_Witness ==
    /\ last.op = "do_shutdown"
    /\ state = OPERATIONAL
    /\ Len(outbox) = Len(last.pre.outbox) + 1
    /\ outbox[Len(outbox)].type = "shutdown_trigger"

\* C11: an actor whose init plugins return false indefinitely never becomes
\* INITIALIZED or OPERATIONAL, and once the shutdown request has run
\* shutdown_start() it eventually reaches SHUT_DOWN, every shutdown plugin
\* returning true in the end.
C11_InitErrorTerminates ==
    /\ [](state \notin {INITIALIZED, OPERATIONAL})
    /\ (phase.shutdown ~> state = SHUTTED_DOWN)

\* the last unsubscribe() call and what it appended to the outbox
LastCall == unsubscribes[Len(unsubscribes)]
Emitted == SubSeq(outbox, Len(last.pre.outbox) + 1, Len(outbox))
IsLocal(c) == c.addr.supervisor = this
Confirmation(c) ==
    [type |-> "unsubscription_confirmation", dest |-> c.h.actor_address,
     payload |-> [point |-> [handler |-> c.h, address |-> c.addr],
                  callback |-> c.callback]]
ExternalUnsubscription(c) ==
    [type |-> "external_unsubscription", dest |-> c.h.actor_address,
     payload |-> [point |-> [handler |-> c.h, address |-> c.addr]]]
\* the calls that gave a callback, by the owner of the address
CallsWithCallback(local) ==
    { k \in 1 .. Len(unsubscribes) :
         unsubscribes[k].callback # Null /\ IsLocal(unsubscribes[k]) = local }
Carries(m, cb) == callback_of(m.payload) = cb

Delivering == last.op = "deliver_unsubscription"
DeliveredNow == delivered[Len(delivered)]
\* a delivery invokes at most the callback of its message, as its last act
InvokedOnDelivery ==
    /\ (Stepped /\ ~Delivering => invoked = last.pre.invoked)
    /\ (Delivering =>
           /\ delivered = Append(last.pre.delivered, DeliveredNow)
           /\ IF DeliveredNow.payload.callback = Null
              THEN invoked = last.pre.invoked /\ Asked("invoke") = << >>
              ELSE /\ invoked = Append(last.pre.invoked, DeliveredNow.payload.callback)
                   /\ Len(Asked("invoke")) = 1
                   /\ calls[Len(calls)].ev = "invoke"
                   /\ (DeliveredNow.dest = address =>
                          Len(Asked("poll")) = Len(calls) - 2))
\* each callback of the calls `ks` is invoked at most once, and exactly once
\* when no message is left to deliver
InvokedOnce(ks) ==
    \A k \in ks :
       /\ Count(invoked, unsubscribes[k].callback) <= 1
       /\ (Running /\ queue = << >> => Count(invoked, unsubscribes[k].callback) = 1)

Processing == last.op = "process"
ProcessedOn == calls[1].p
Processed == calls[1].r
IsPosted(m) == \E i \in 1 .. Len(posted) : posted[i] = m
\* the handlers subscribed to the processed message's destination, those of
\* supervisor T, as handler_calls and as invocations on S
HandlersOf(T) ==
    SelectSeq(last.pre.registry[Processed.destination], LAMBDA h : h.supervisor = T)
AsCalls(hs) == [i \in 1 .. Len(hs) |-> handler_call(Processed, hs[i])]
AsInvocations(hs, S) ==
    [i \in 1 .. Len(hs) |-> [handler |-> hs[i], message |-> Processed, on |-> S]]

\* C16: a handler is only ever invoked on the supervisor of its owning actor,
\* and with a message that was sent, unchanged.  When a supervisor delivers a
\* message to an address it owns, it invokes at once the handlers of its own
\* actors, in registration order, and invokes no other; each handler of
\* another supervisor gets a handler_call{orig_message, handler} on that
\* supervisor's queue, carrying the message delivered; and the delivery of a
\* handler_call invokes its handler with its orig_message.
C16_OwnSupervisor ==
    /\ \A i \in 1 .. Len(invocations) :
          /\ invocations[i].on = invocations[i].handler.supervisor
          /\ IsPosted(invocations[i].message)
    /\ \A S \in Supervisors : \A i \in 1 .. Len(queues[S]) :
          queues[S][i].type = "handler_call" =>
              /\ queues[S][i].payload.handler.supervisor = S
              /\ IsPosted(queues[S][i].payload.orig_message)
              /\ queues[S][i].payload.orig_message.destination.supervisor # S
    /\ (Processing /\ Processed.type = "message" =>
           /\ Processed.destination.supervisor = ProcessedOn
           /\ invocations = last.pre.invocations
                                \o AsInvocations(HandlersOf(ProcessedOn), ProcessedOn)
           /\ \A T \in Supervisors :
                 queues[T] = IF T = ProcessedOn THEN Tail(last.pre.queues[T])
                             ELSE last.pre.queues[T] \o AsCalls(HandlersOf(T)))
    /\ (Processing /\ Processed.type = "handler_call" =>
           /\ invocations = Append(last.pre.invocations,
                                   [handler |-> Processed.payload.handler,
                                    message |-> Processed.payload.orig_message,
                                    on |-> ProcessedOn])
           /\ \A T \in Supervisors :
                 queues[T] = IF T = ProcessedOn THEN Tail(last.pre.queues[T])
                             ELSE last.pre.queues[T])

\* C16 witness: a message to an address of S2, subscribed to by a handler of
\* S2 and one of S1, was delivered on S2, which invoked its own handler; the
\* handler_call is now delivered on S1, where the other handler runs.
C16_Witness ==
    /\ Processing /\ Processed.type = "handler_call" /\ ProcessedOn = "S1"
    /\ Processed.payload.orig_message.destination.supervisor = "S2"
    /\ Len(invocations) = 2
    /\ invocations[1].on = "S2" /\ invocations[2].on = "S1"
    /\ invocations[1].message = invocations[2].message

\* what was delivered for request id, and what is still to come for it
OutcomesOf(id) == SelectSeq(outcomes, LAMBDA o : o.id = id)
EnteredFor(id) == SelectSeq(entered, LAMBDA e : e.id = id)
Waiting(id) ==
    \/ timers[id] = "armed"
    \/ \E i \in processed + 1 .. Len(entered) : entered[i].id = id

\* C17: for every request at most one outcome is delivered to the requester,
\* the response or the synthesized request_timeout, never both; none is lost:
\* a request without outcome still has its entry and its timer armed or a
\* response or timer observation in the queue; the outcome is the one of the
\* two that entered the supervisor's queue first, and whatever enters later
\* finds no entry and delivers nothing.
C17_ExactlyOne ==
    /\ \A id \in 1 .. Len(timers) :
          /\ Len(OutcomesOf(id)) <= 1
          /\ (Len(OutcomesOf(id)) = 0 => id \in inflight /\ Waiting(id))
          /\ (Len(OutcomesOf(id)) = 1 =>
                 /\ id \notin inflight
                 /\ OutcomesOf(id)[1].kind = EnteredFor(id)[1].kind)
    /\ (last.op = "correlate" =>
           outcomes = IF calls[1].p \in last.pre.inflight
                      THEN Append(last.pre.outcomes, [id |-> calls[1].p, kind |-> calls[1].r])
                      ELSE last.pre.outcomes)

\* C17 witness: the timer of a request fired before its response entered the
\* queue; both have been taken: the requester got the request_timeout and the
\* response was dropped.
C17_Witness ==
    /\ last.op = "correlate" /\ calls[1].r = "response"
    /\ calls[1].p \notin last.pre.inflight
    /\ Len(EnteredFor(calls[1].p)) = 2
    /\ EnteredFor(calls[1].p)[1].kind = "request_timeout"
    /\ OutcomesOf(calls[1].p) = << [id |-> calls[1].p, kind |-> "request_timeout"] >>
    /\ processed = Len(entered)

\* C18: init_continue() is entered only while the actor is INITIALIZING and
\* shutdown_continue() only while it is SHUTTING_DOWN, so that neither
\* assertion ever fails, also when a suspended init plugin resumes init after
\* shutdown_start(); and init_finish() never sets INITIALIZED on an actor that
\* is shutting down or shut down.
C18_StateAssertions ==
    /\ (last.op = "init_continue" => last.pre.state = INITIALIZING)
    /\ (last.op = "shutdown_continue" => last.pre.state = SHUTTING_DOWN)
    /\ aborted \notin {"init_continue", "shutdown_continue"}
    /\ (Stepped /\ state = INITIALIZED =>
           last.pre.state \notin {SHUTTING_DOWN, SHUTTED_DOWN})

\* the last install_plugin() / uninstall_plugin() call
SlotCalled == last.op \in {"install_plugin", "uninstall_plugin"}
LastSlotCall == slot_calls[Len(slot_calls)]
OtherSlotsUnchanged ==
    \A slot \in Slots \ {LastSlotCall.slot} :
       slot_plugins(Self, slot) = slot_plugins(last.pre, slot)
Occurrences(seq, p) == { i \in 1 .. Len(seq) : seq[i] = p }
\* an install_plugin(p, slot) directly followed by uninstall_plugin(p, slot)
RoundTrips ==
    { i \in 1 .. Len(slot_calls) - 1 :
         /\ slot_calls[i].op = "install_plugin"
         /\ slot_calls[i + 1].op = "uninstall_plugin"
         /\ slot_calls[i + 1].p = slot_calls[i].p
         /\ slot_calls[i + 1].slot = slot_calls[i].slot }
\* what install_plugin() and uninstall_plugin() do to the slots: install
\* appends at the back of the named slot; uninstall of a plugin the slot holds
\* removes one occurrence and keeps the order of the rest; the other three
\* slots stay as they are
SlotEffect ==
    SlotCalled =>
        LET c == LastSlotCall
        IN /\ (c.op = "install_plugin" =>
                  c.after = Append(c.before, c.p) /\ OtherSlotsUnchanged)
           /\ (c.op = "uninstall_plugin" /\ Occurrences(c.before, c.p) # {} =>
                  /\ aborted = Null
                  /\ \E i \in Occurrences(c.before, c.p) : c.after = erase(c.before, i)
                  /\ OtherSlotsUnchanged)

\* C19 (original): ... and for any slot contents install_plugin(p, slot)
\* followed by uninstall_plugin(p, slot) restores the slot's sequence.
C19_Original ==
    /\ SlotEffect
    /\ \A i \in RoundTrips : slot_calls[i + 1].after = slot_calls[i].before

\* C19 (amended): install_plugin() and uninstall_plugin() act on the named
\* slot only, as claimed; uninstall_plugin(p, slot) removes the first
\* occurrence of p; install_plugin(p, slot) followed by
\* uninstall_plugin(p, slot) restores the slot's sequence when the slot did
\* not hold p before, and otherwise leaves the slot without its first p and
\* with a p at the back.
C19_Slots ==
    /\ SlotEffect
    /\ (SlotCalled /\ LastSlotCall.op = "uninstall_plugin"
          /\ Occurrences(LastSlotCall.before, LastSlotCall.p) # {} =>
           LastSlotCall.after = erase(LastSlotCall.before,
                                      find(LastSlotCall.before, LastSlotCall.p)))
    /\ \A i \in RoundTrips :
          LET before == slot_calls[i].before
              q == slot_calls[i].p
          IN slot_calls[i + 1].after =
                IF Occurrences(before, q) = {} THEN before
                ELSE Append(erase(before, find(before, q)), q)

\* C19 witness: a plugin that the slot already holds at its front installs
\* itself again and uninstalls itself: the slot has lost its first entry.
C19_Witness ==
    /\ last.op = "uninstall_plugin" /\ aborted = Null
    /\ Len(slot_calls) = 2 /\ RoundTrips = {1}
    /\ slot_calls[1].before = << 1, 2, 3 >> /\ slot_calls[1].p = 1
    /\ slot_calls[2].after = << 2, 3, 1 >>
    /\ slot_calls[1].slot = SHUTDOWN

\* C20: over the life of the actor deactivate() is called at most once on each
\* plugin, also when deactivate_plugins() runs more than once and a plugin
\* that confirms its deactivation later is still active at the second run.
C20_DeactivateOnce ==
    \A p \in Plugins : completed.deactivate[p] <= 1

\* the plugins that committed a successful activation in the last handler
CommittedNow ==
    { calls[i].p : i \in { k \in 1 .. Len(calls) :
                              calls[k].ev = "commit_activation" /\ calls[k].r = "success" } }
Configured == { plugins[i] : i \in 1 .. Len(plugins) }

\* C21: activating_plugins tracks exactly the plugins that have not yet
\* confirmed their activation: after the constructor it holds the identity
\* of every configured plugin; a handler removes from it the identities of
\* the plugins that commit a successful activation in it and nothing else,
\* so a reported failure removes nothing; it always is the set of identities
\* of the configured plugins that have not committed a success, and it is
\* empty if and only if every configured plugin has.
C21_ActivatingTracks ==
    /\ (~Stepped =>
           activating_plugins = { identity(p) : p \in Configured })
    /\ (Stepped /\ last.op \in {"do_initialize", "commit_plugin_activation"} =>
           activating_plugins =
               last.pre.activating_plugins \ { identity(p) : p \in CommittedNow })
    /\ (Stepped /\ last.op \notin {"do_initialize", "commit_plugin_activation"} =>
           activating_plugins = last.pre.activating_plugins)
    /\ activating_plugins =
           { identity(p) : p \in Configured \ completed.activation }
    /\ (activating_plugins = {} <=> completed.activation = Configured)

\* C21 witness: a plugin that answers later reports its failure when every
\* other plugin has committed its success: its identity alone is left in the
\* set, before the report and after it.
C21_Witness ==
    /\ last.op = "commit_plugin_activation"
    /\ IsFailure(calls[1])
    /\ last.pre.activating_plugins = { identity(calls[1].p) }
    /\ activating_plugins = { identity(calls[1].p) }
    /\ completed.activation = Configured \ { calls[1].p }

====
